---- MODULE Spec2Model ----
(***************************************************************************)
(* Model of web_crawler_app.py: the external-links crawler.                *)
(*                                                                         *)
(* A URL string is a finite sequence of tokens, e.g.                       *)
(*   "https://a.com/doc.PDF"  is  <<"https", "://", "a.com", "/doc", ".PDF">> *)
(* so that urlparse, urljoin, str.startswith, str.lower, str.endswith and  *)
(* the substring tests are computed on the text of the URL.                *)
(*                                                                         *)
(* visited_urls and external_links are the module globals; they live as    *)
(* long as the process and are shared by the button handlers.  The crawl   *)
(* loop is split at the call of get_links: Pop is lines 71-80, Fetch is    *)
(* lines 82-86.  The web is revealed page by page: served records what     *)
(* requests.get returned for a URL, and a URL asked for twice in one run   *)
(* gets the same response.                                                 *)
(***************************************************************************)
EXTENDS Integers, Sequences, FiniteSets, TLC

\* ------------------------------------------------------------------ bounds
\* Largest number of <a href> tags on one page.
MaxLinks == 2

\* ------------------------------------------------------------- URL strings
EmptyStr == << >>

\* The tokens that make up a path.
PathTokens == {"/", "/p2", "/p3", "/x", "/doc", ".PDF", ".pdf", ".jpg", "/et_blog"}

\* str.lower() on one token.
Lower(tok) ==
    CASE tok = ".PDF" -> ".pdf"
      [] tok = "A.com" -> "a.com"
      [] tok = "B.com" -> "b.com"
      [] OTHER -> tok

\* The module constant SKIP_EXTENSIONS.
SKIP_EXTENSIONS ==
    {".pdf", ".jpg", ".jpeg", ".png", ".gif", ".mp4", ".zip", ".doc", ".docx",
     ".xls", ".xlsx"}

\* s.startswith(prefix), both token sequences.
StartsWith(s, prefix) ==
    /\ Len(s) >= Len(prefix)
    /\ \A i \in 1..Len(prefix) : s[i] = prefix[i]

\* full_url.startswith("http"): the first token begins with the letters http.
StartsWithHttp(s) == Len(s) >= 1 /\ s[1] \in {"http", "https"}

\* `sub in tok` for one token: the token itself, or letters inside it.
TokenContains(tok, sub) ==
    \/ tok = sub
    \/ sub = "et_blog" /\ tok = "/et_blog"

\* `sub in s`: some token of s contains sub.
Contains(s, sub) == \E i \in 1..Len(s) : TokenContains(s[i], sub)

\* s.lower()
LowerStr(s) == [i \in 1..Len(s) |-> Lower(s[i])]

\* s.endswith(ext) for an extension that is one token.
EndsWith(s, ext) == s # << >> /\ s[Len(s)] = ext

\* urllib.parse.urlparse: scheme, netloc and path of a URL string.
HasScheme(u) == Len(u) >= 2 /\ u[2] \in {"://", ":"}

HasNetloc(u) == Len(u) >= 3 /\ u[2] = "://" /\ u[3] \notin PathTokens \cup {"#", "?"}

PathStart(u) ==
    IF HasNetloc(u) THEN 4
    ELSE IF HasScheme(u) THEN 3
    ELSE 1

RECURSIVE PathFrom(_, _)
PathFrom(u, i) ==
    IF i > Len(u) \/ u[i] \in {"#", "?"} THEN << >>
    ELSE <<u[i]>> \o PathFrom(u, i + 1)

urlparse(u) ==
    [scheme |-> IF HasScheme(u) THEN u[1] ELSE "",
     netloc |-> IF HasNetloc(u) THEN u[3] ELSE "",
     path   |-> PathFrom(u, PathStart(u))]

\* urlparse raises ValueError on an unbalanced bracket in the netloc.
RaisesValueError(u) == HasNetloc(u) /\ u[3] = "["

RECURSIVE StripFragment(_)
StripFragment(u) ==
    IF u = << >> \/ Head(u) = "#" THEN << >>
    ELSE <<Head(u)>> \o StripFragment(Tail(u))

\* urllib.parse.urljoin(base, href) for the href shapes of the model:
\* empty, absolute, fragment-only and path-absolute references.
urljoin(base, href) ==
    IF href = << >> THEN base
    ELSE IF HasScheme(href) THEN href
    ELSE IF Head(href) = "#" THEN StripFragment(base) \o href
    ELSE SubSeq(base, 1, PathStart(base) - 1) \o href

\* ------------------------------------------------------------ URL Classifier
should_skip_url(url) ==
    LET path == LowerStr(urlparse(url).path)
    IN  \E ext \in SKIP_EXTENSIONS : EndsWith(path, ext)

\* A slip: the test for et_blog left out.
is_valid_landing_page_fragment_only(url) ==
    IF Contains(url, "#") THEN FALSE ELSE TRUE

is_valid_landing_page(url) ==
    IF Contains(url, "#") \/ Contains(url, "et_blog") THEN FALSE ELSE TRUE

\* ------------------------------------------------------------------ the web
\* The href attributes a page may carry: two site-relative pages, an
\* off-site page and an href urljoin cannot parse.
Hrefs ==
    {<<"/p2">>, <<"/p3">>, <<"https", "://", "b.com">>, <<"http", "://", "[">>}

RECURSIVE SeqsUpTo(_, _)
SeqsUpTo(S, n) ==
    IF n = 0 THEN {<< >>}
    ELSE LET shorter == SeqsUpTo(S, n - 1)
         IN  shorter \cup {Append(q, x) : q \in shorter, x \in S}

\* The body sent with an error status or a non-HTML content type: it too
\* carries <a href> text, which get_links must not read.
ErrorBody == <<<<"/p3">>, <<"https", "://", "b.com">>>>

\* What requests.get can produce for one URL: a RequestException (network
\* error, timeout, raise_for_status), a non-HTML body, or an HTML page with
\* its <a href> attributes in document order.
Responses ==
    {[status |-> "error", anchors |-> ErrorBody],
     [status |-> "nonhtml", anchors |-> ErrorBody]}
    \cup {[status |-> "ok", anchors |-> a] : a \in SeqsUpTo(Hrefs, MaxLinks)}

\* What the user may type into the root URL field (after strip()).
RootUrls ==
    {EmptyStr, <<"ftp", "://", "a.com">>, <<"https", "://", "a.com">>}

\* What the user may have typed into the keyword box (after strip()).
Keywords == {"", "b.com", "/p2"}

\* --------------------------------------------------------------- get_links
\* A slip: the netloc compared with the whole base URL string.
is_internal_vs_string(full_url, base_url) ==
    <<urlparse(full_url).netloc>> = base_url

\* A slip: the two netlocs compared without regard to case.
is_internal_ignoring_case(full_url, base_url) ==
    Lower(urlparse(full_url).netloc) = Lower(urlparse(base_url).netloc)

\* Line 57: the link's netloc is the netloc of the base URL.
is_internal(full_url, base_url) ==
    urlparse(full_url).netloc = urlparse(base_url).netloc

\* The for loop over soup.find_all("a", href=True), from anchor i on.
\* ext is the list of records appended to external_links so far.
RECURSIVE ScanAnchors(_, _, _, _, _, _)
ScanAnchors(anchors, i, url, base_url, internal_links, ext) ==
    IF i > Len(anchors)
    THEN [raised |-> FALSE, internal_links |-> internal_links, appended |-> ext]
    ELSE IF RaisesValueError(anchors[i])
    THEN [raised |-> TRUE, internal_links |-> {}, appended |-> ext]
    ELSE LET full_url == urljoin(url, anchors[i])
         IN  IF should_skip_url(full_url) \/ ~is_valid_landing_page(full_url)
             THEN ScanAnchors(anchors, i + 1, url, base_url, internal_links, ext)
             ELSE IF is_internal(full_url, base_url)
             THEN ScanAnchors(anchors, i + 1, url, base_url,
                              internal_links \cup {full_url}, ext)
             ELSE IF StartsWithHttp(full_url)
             THEN ScanAnchors(anchors, i + 1, url, base_url, internal_links,
                              Append(ext, <<full_url, url>>))
             ELSE ScanAnchors(anchors, i + 1, url, base_url, internal_links, ext)

\* A slip: the Content-Type test left out.
get_links_any_type(url, base_url, response) ==
    IF response.status = "error"
    THEN [raised |-> FALSE, internal_links |-> {}, appended |-> << >>]
    ELSE ScanAnchors(response.anchors, 1, url, base_url, {}, << >>)

\* A slip: the RequestException of a failed fetch is not caught.
get_links_uncaught(url, base_url, response) ==
    IF response.status = "error"
    THEN [raised |-> TRUE, internal_links |-> {}, appended |-> << >>]
    ELSE IF response.status = "nonhtml"
    THEN [raised |-> FALSE, internal_links |-> {}, appended |-> << >>]
    ELSE ScanAnchors(response.anchors, 1, url, base_url, {}, << >>)

\* get_links(url, base_url) given the response of requests.get(url).
get_links(url, base_url, response) ==
    IF response.status # "ok"
    THEN [raised |-> FALSE, internal_links |-> {}, appended |-> << >>]
    ELSE ScanAnchors(response.anchors, 1, url, base_url, {}, << >>)

\* ------------------------------------------------------------------- state
VARIABLES
    visited_urls,           \* module global: set of URLs
    external_links,         \* module global: list of <<link, source page>>
    urls_to_visit,          \* crawl_website local: the frontier
    total_urls_discovered,  \* crawl_website local
    current_url,            \* crawl_website local: the URL popped last
    start_url,              \* root_url of the crawl in progress (base_url)
    run,                    \* "Idle", "Running", "Completed", "Aborted"
    pc,                     \* position in crawl_website: "loop", "fetch"; else "idle"
    served,                 \* the web seen in this run: URL -> response
    fetches,                \* requests.get calls of this run: URL -> count
    st_error,               \* the st.error shown by the last Start Crawling
    csv_data,               \* data behind the download button, or << >>
    progress_reports,       \* the progress reports of this run, oldest first
    keyword_filter,         \* the keyword line 149 read in this script run
    filtered_links          \* the table shown by st.dataframe, or << >>

vars ==
    <<visited_urls, external_links, urls_to_visit, total_urls_discovered,
      current_url, start_url, run, pc, served, fetches, st_error, csv_data,
      progress_reports, keyword_filter, filtered_links>>

NoWeb == [u \in {} |-> 0]

Init ==
    /\ visited_urls = {}
    /\ external_links = << >>
    /\ urls_to_visit = {}
    /\ total_urls_discovered = 0
    /\ current_url = EmptyStr
    /\ start_url = EmptyStr
    /\ run = "Idle"
    /\ pc = "idle"
    /\ served = NoWeb
    /\ fetches = NoWeb
    /\ st_error = ""
    /\ csv_data = << >>
    /\ progress_reports = << >>
    /\ keyword_filter = ""
    /\ filtered_links = << >>

\* A slip: any scheme accepted.
has_any_scheme(root_url) == HasScheme(root_url)

\* Line 129: the root URL starts with one of the two accepted prefixes.
has_http_prefix(root_url) ==
    \/ StartsWith(root_url, <<"http", "://">>)
    \/ StartsWith(root_url, <<"https", "://">>)

\* save_to_csv: a header row and one row per record.
save_to_csv(links) == <<<<"External Link", "Linked From Page">>>> \o links

\* The export section at the end of the script: the data handed to
\* st.download_button, << >> when only the warning is shown.
export_section(links) ==
    IF links # << >> THEN save_to_csv(links) ELSE << >>

\* A slip: visited_urls.clear() left out of the handler.
StartCrawling_keeps_visited(root_url) ==
    /\ run # "Running"
    /\ IF root_url = EmptyStr
       THEN /\ st_error' = "Please enter a valid root URL."
            /\ csv_data' = export_section(external_links)
            /\ keyword_filter' = ""
            /\ filtered_links' = << >>
            /\ UNCHANGED <<visited_urls, external_links, urls_to_visit,
                           total_urls_discovered, current_url, start_url, run,
                           pc, served, fetches, progress_reports>>
       ELSE IF ~has_http_prefix(root_url)
       THEN /\ st_error' = "The root URL must start with 'http://' or 'https://'."
            /\ csv_data' = export_section(external_links)
            /\ keyword_filter' = ""
            /\ filtered_links' = << >>
            /\ UNCHANGED <<visited_urls, external_links, urls_to_visit,
                           total_urls_discovered, current_url, start_url, run,
                           pc, served, fetches, progress_reports>>
       ELSE /\ visited_urls' = visited_urls
            /\ external_links' = << >>
            /\ urls_to_visit' = {root_url}
            /\ total_urls_discovered' = 1
            /\ start_url' = root_url
            /\ current_url' = EmptyStr
            /\ run' = "Running"
            /\ pc' = "loop"
            /\ served' = NoWeb
            /\ fetches' = NoWeb
            /\ st_error' = ""
            /\ csv_data' = << >>
            /\ progress_reports' = << >>
            /\ keyword_filter' = ""
            /\ filtered_links' = << >>

\* The "Start Crawling" button: seed validation, the two clear() calls and
\* the first lines of crawl_website.
StartCrawling(root_url) ==
    /\ run # "Running"
    /\ IF root_url = EmptyStr
       THEN /\ st_error' = "Please enter a valid root URL."
            /\ csv_data' = export_section(external_links)
            /\ keyword_filter' = ""
            /\ filtered_links' = << >>
            /\ UNCHANGED <<visited_urls, external_links, urls_to_visit,
                           total_urls_discovered, current_url, start_url, run,
                           pc, served, fetches, progress_reports>>
       ELSE IF ~has_http_prefix(root_url)
       THEN /\ st_error' = "The root URL must start with 'http://' or 'https://'."
            /\ csv_data' = export_section(external_links)
            /\ keyword_filter' = ""
            /\ filtered_links' = << >>
            /\ UNCHANGED <<visited_urls, external_links, urls_to_visit,
                           total_urls_discovered, current_url, start_url, run,
                           pc, served, fetches, progress_reports>>
       ELSE /\ visited_urls' = {}
            /\ external_links' = << >>
            /\ urls_to_visit' = {root_url}
            /\ total_urls_discovered' = 1
            /\ start_url' = root_url
            /\ current_url' = EmptyStr
            /\ run' = "Running"
            /\ pc' = "loop"
            /\ served' = NoWeb
            /\ fetches' = NoWeb
            /\ st_error' = ""
            /\ csv_data' = << >>
            /\ progress_reports' = << >>
            /\ keyword_filter' = ""
            /\ filtered_links' = << >>

\* A slip: the element read without being removed.
pop_rest_keeps(frontier, u) == frontier

\* A slip: the visited URLs not subtracted.
new_internal_unfiltered(new_links, visited, frontier) == new_links \ frontier

\* A slip: the popped URL never recorded as visited.
mark_visited_forgot(visited, u) == visited

\* Line 74: visited_urls.add(current_url).
mark_visited(visited, u) == visited \cup {u}

\* A slip: the new links replace the frontier instead of joining it.
frontier_update_assigns(frontier, new_internal_links) == new_internal_links

\* set.pop(): the set without the element returned.
pop_rest(frontier, u) == frontier \ {u}

\* Line 83: new_links - visited_urls - urls_to_visit.
new_internal(new_links, visited, frontier) == (new_links \ visited) \ frontier

\* Line 84: urls_to_visit.update(new_internal_links).
frontier_update(frontier, new_internal_links) == frontier \cup new_internal_links

\* A slip: a record is appended only if the list does not hold it yet.
RECURSIVE AppendNew(_, _)
AppendNew(links, records) ==
    IF records = << >> THEN links
    ELSE IF \E i \in 1..Len(links) : links[i] = Head(records)
    THEN AppendNew(links, Tail(records))
    ELSE AppendNew(Append(links, Head(records)), Tail(records))

append_external_deduplicates(links, got) == AppendNew(links, got.appended)

\* A slip: the list assigned instead of appended to.
append_external_replaces(links, got) == got.appended

\* A slip: the records dropped when get_links raises.
append_external_or_reset(links, got) ==
    IF got.raised THEN << >> ELSE links \o got.appended

\* Line 60 as seen by the caller: the records get_links appended before it
\* returned or raised stay in external_links.
append_external(links, got) == links \o got.appended

\* A slip: the ratio computed before the URL was added to visited_urls.
progress_value_before_add(visited, total) == <<Cardinality(visited) - 1, total>>

\* Line 76: len(visited_urls) / total_urls_discovered, kept as the fraction
\* <<numerator, denominator>>.
progress_value(visited, total) == <<Cardinality(visited), total>>

\* A slip: every link of the page counted, known or not.
total_update_counts_all(total, new_links, new_internal_links) ==
    total + Cardinality(new_links)

\* Line 85: total_urls_discovered += len(new_internal_links).
total_update(total, new_links, new_internal_links) ==
    total + Cardinality(new_internal_links)

\* One pass over lines 71-80: test the loop condition, pop an arbitrary URL,
\* mark it visited, report the progress and the URL.
Pop ==
    /\ run = "Running" /\ pc = "loop"
    /\ urls_to_visit # {}
    /\ \E u \in urls_to_visit :
        /\ current_url' = u
        /\ urls_to_visit' = pop_rest(urls_to_visit, u)
        /\ IF u \notin visited_urls
           THEN /\ visited_urls' = mark_visited(visited_urls, u)
                /\ progress_reports' =
                       Append(progress_reports,
                              [value |-> progress_value(visited_urls',
                                                        total_urls_discovered),
                               url |-> u])
                /\ pc' = "fetch"
           ELSE /\ UNCHANGED <<visited_urls, progress_reports>>
                /\ pc' = "loop"
    /\ UNCHANGED <<external_links, total_urls_discovered, start_url, run,
                   served, fetches, st_error, csv_data, keyword_filter,
                   filtered_links>>

\* Lines 82-86: get_links on the popped URL and the frontier update; an
\* exception get_links does not catch leaves through the handler's except.
FetchFrom(responses) ==
    /\ run = "Running" /\ pc = "fetch"
    /\ \E response \in responses :
        /\ current_url \in DOMAIN served => response = served[current_url]
        /\ served' = (current_url :> response) @@ served
        /\ fetches' = (current_url :>
                         (IF current_url \in DOMAIN fetches
                          THEN fetches[current_url] + 1 ELSE 1)) @@ fetches
        /\ LET got == get_links(current_url, start_url, response)
               new_internal_links ==
                   new_internal(got.internal_links, visited_urls, urls_to_visit)
           IN  /\ external_links' = append_external(external_links, got)
               /\ IF got.raised
                  THEN /\ run' = "Aborted"
                       /\ pc' = "idle"
                       /\ st_error' = "An error occurred during crawling"
                       /\ csv_data' = export_section(external_links')
                       /\ UNCHANGED <<urls_to_visit, total_urls_discovered>>
                  ELSE /\ urls_to_visit' =
                              frontier_update(urls_to_visit, new_internal_links)
                       /\ total_urls_discovered' =
                              total_update(total_urls_discovered,
                                           got.internal_links,
                                           new_internal_links)
                       /\ pc' = "loop"
                       /\ UNCHANGED <<run, st_error, csv_data>>
    /\ UNCHANGED <<visited_urls, current_url, start_url, progress_reports,
                   keyword_filter, filtered_links>>

Fetch == FetchFrom(Responses)

\* Python's `keyword in link` for a keyword of at most one token.
keyword_in(keyword, link) == keyword = "" \/ Contains(link, keyword)

\* A slip: the keyword looked for in the source page.
filter_links_by_source(links, keyword) ==
    SelectSeq(links, LAMBDA r : keyword_in(keyword, r[2]))

\* A slip: the match made on lower-cased text.
filter_links_ignoring_case(links, keyword) ==
    SelectSeq(links, LAMBDA r : keyword_in(Lower(keyword), LowerStr(r[1])))

\* Line 149: the records whose link contains the keyword.
filter_links(links, keyword) ==
    SelectSeq(links, LAMBDA r : keyword_in(keyword, r[1]))

\* The loop condition is false: crawl_website returns to the handler, which
\* filters what it shows (lines 145-158), and the script runs on to the
\* export section.  keyword is the text of the filter box.
Finish(keyword) ==
    /\ run = "Running" /\ pc = "loop"
    /\ urls_to_visit = {}
    /\ run' = "Completed"
    /\ pc' = "idle"
    /\ IF external_links # << >>
       THEN /\ keyword_filter' = keyword
            /\ filtered_links' = filter_links(external_links, keyword)
       ELSE /\ keyword_filter' = ""
            /\ filtered_links' = << >>
    /\ csv_data' = export_section(external_links)
    /\ UNCHANGED <<visited_urls, external_links, urls_to_visit,
                   total_urls_discovered, current_url, start_url, served,
                   fetches, st_error, progress_reports>>

\* A click on the download button: the script runs again with no button
\* pressed and reaches the export section.
ExportToCsv ==
    /\ run # "Running"
    /\ st_error' = ""
    /\ csv_data' = export_section(external_links)
    /\ keyword_filter' = ""
    /\ filtered_links' = << >>
    /\ UNCHANGED <<visited_urls, external_links, urls_to_visit,
                   total_urls_discovered, current_url, start_url, run, pc,
                   served, fetches, progress_reports>>

\* The "Clear Results" button; st.experimental_rerun() runs the script again.
clear_results ==
    /\ run # "Running"
    /\ external_links' = << >>
    /\ st_error' = ""
    /\ csv_data' = export_section(<< >>)
    /\ keyword_filter' = ""
    /\ filtered_links' = << >>
    /\ UNCHANGED <<visited_urls, urls_to_visit, total_urls_discovered,
                   current_url, start_url, run, pc, served, fetches,
                   progress_reports>>

Next ==
    \/ \E root_url \in RootUrls : StartCrawling(root_url)
    \/ Pop
    \/ Fetch
    \/ \E keyword \in Keywords : Finish(keyword)
    \/ ExportToCsv
    \/ clear_results

Spec == Init /\ [][Next]_vars

\* The crawl loop runs in one thread and no step of it blocks for ever:
\* requests.get has timeout=10 and time.sleep(1) returns.
SpecFair ==
    /\ Spec
    /\ WF_vars(Pop)
    /\ WF_vars(Fetch)
    /\ WF_vars(\E keyword \in Keywords : Finish(keyword))

\* ------------------------------------------------- the classifier alone
\* The resolved URLs put before the extractor one at a time: every scheme,
\* netloc, path, query and fragment shape of the alphabet.
ClassifyUrls ==
    {<<s, "://", h>> \o p \o q :
        s \in {"http", "https", "ftp"},
        h \in {"a.com", "A.com", "b.com"},
        p \in {<< >>, <<"/p2">>, <<"/doc", ".PDF">>, <<"/doc", ".pdf">>,
               <<"/doc", ".jpg">>, <<"/et_blog">>, <<"/et_blog", "/p2">>},
        q \in {<< >>, <<"#", "top">>, <<"?", "x=1">>}}
    \cup {<<"mailto", ":", "x@b.com">>, <<"javascript", ":", "void(0)">>}

\* Pages that carry exactly one anchor, an absolute URL.
OneAnchorResponses ==
    {[status |-> "ok", anchors |-> <<u>>] : u \in ClassifyUrls}

\* The seed has just been popped and marked visited; its page is about to
\* be fetched.
InitClassify ==
    /\ start_url \in {<<"https", "://", "a.com">>, <<"http", "://", "b.com">>}
    /\ current_url = start_url
    /\ visited_urls = {start_url}
    /\ external_links = << >>
    /\ urls_to_visit = {}
    /\ total_urls_discovered = 1
    /\ run = "Running"
    /\ pc = "fetch"
    /\ served = NoWeb
    /\ fetches = NoWeb
    /\ st_error = ""
    /\ csv_data = << >>
    /\ progress_reports = <<[value |-> <<1, 1>>, url |-> start_url]>>
    /\ keyword_filter = ""
    /\ filtered_links = << >>

FetchOneAnchor == FetchFrom(OneAnchorResponses)

SpecClassify == InitClassify /\ [][FetchOneAnchor]_vars

\* ------------------------------------------- a site with rejected links
\* A second alphabet of href attributes: a page of the site, a fragment, a
\* document with a skipped extension, a blog listing, and two off-site
\* pages.
MixedHrefs ==
    {<<"/p2">>, <<"#", "top">>, <<"/doc", ".PDF">>, <<"/et_blog">>,
     <<"https", "://", "B.com", "/p2">>, <<"https", "://", "c.com">>}

MixedResponses ==
    {[status |-> "error", anchors |-> ErrorBody],
     [status |-> "nonhtml", anchors |-> ErrorBody]}
    \cup {[status |-> "ok", anchors |-> a] : a \in SeqsUpTo(MixedHrefs, MaxLinks)}

\* Seeds the handler accepts; the classifier would reject the last two.
MixedRootUrls ==
    {<<"https", "://", "a.com">>,
     <<"https", "://", "a.com", "/et_blog">>,
     <<"https", "://", "a.com", "/doc", ".PDF">>}

FetchMixed == FetchFrom(MixedResponses)

NextMixed ==
    \/ \E root_url \in MixedRootUrls : StartCrawling(root_url)
    \/ Pop
    \/ FetchMixed
    \/ \E keyword \in Keywords : Finish(keyword)
    \/ ExportToCsv
    \/ clear_results

SpecMixed == Init /\ [][NextMixed]_vars

\* ------------------------------------------------------------------ claims
\* C1: the frontier (urls_to_visit) and the visited set (visited_urls) are
\* disjoint in every state of every run: after each loop iteration and at
\* each point between the pop and the frontier update.
C1_FrontierVisitedDisjoint == urls_to_visit \cap visited_urls = {}

\* A run in which a page has been processed while others wait in the frontier.
C1_Witness ==
    /\ run = "Running" /\ pc = "loop"
    /\ Cardinality(visited_urls) >= 2
    /\ urls_to_visit # {}

\* C2: within one run requests.get is issued at most once per URL string,
\* visited_urls only grows, and no URL of visited_urls enters urls_to_visit.
C2_NoRefetch ==
    [][/\ \A u \in DOMAIN fetches' : fetches'[u] <= 1
       /\ (run = "Running" =>
              /\ visited_urls \subseteq visited_urls'
              /\ \A u \in visited_urls : u \notin urls_to_visit')]_vars

\* A page that links to itself, or to a page visited before it, has been
\* processed, and the run went on.
C2_Witness ==
    /\ run = "Running" /\ pc = "loop"
    /\ \E u \in DOMAIN served :
          get_links(u, start_url, served[u]).internal_links \cap visited_urls # {}
    /\ Cardinality(DOMAIN fetches) >= 2

\* C3: every record of external_links holds a link whose netloc differs from
\* the netloc of the seed (the base host).
C3_ExternalHostDiffers ==
    \A i \in 1..Len(external_links) :
        urlparse(external_links[i][1]).netloc # urlparse(start_url).netloc

\* Records found on two pages of the site.
C3_Witness ==
    /\ Len(external_links) >= 2
    /\ \E i, j \in 1..Len(external_links) :
          external_links[i][2] # external_links[j][2]

\* The web seen in this run has only HTML pages that were fetched without error.
AllFetchesOk == \A u \in DOMAIN served : served[u].status = "ok"

\* The links of page u that get_links classifies as internal.
InternalTargets(u) == get_links(u, start_url, served[u]).internal_links

\* The URLs reachable from the set S through chains of internal links.
RECURSIVE Reachable(_)
Reachable(S) ==
    LET step == S \cup UNION {InternalTargets(u) : u \in S \cap DOMAIN served}
    IN  IF step = S THEN S ELSE Reachable(step)

SeedUrl == <<"https", "://", "a.com">>
PageP2 == <<"https", "://", "a.com", "/p2">>
PageP3 == <<"https", "://", "a.com", "/p3">>
ExternalB == <<"https", "://", "b.com">>

\* The site of the example: the seed links to /p2 and to b.com, /p2 to nothing.
ExampleSite ==
    /\ start_url = SeedUrl
    /\ DOMAIN served = {SeedUrl, PageP2}
    /\ served[SeedUrl] = [status |-> "ok", anchors |-> <<<<"/p2">>, ExternalB>>]
    /\ served[PageP2] = [status |-> "ok", anchors |-> << >>]

\* C4: when every fetch succeeds with HTML, a crawl that completes has
\* visited exactly the seed and the URLs reachable from it through links
\* classified internal, each of them fetched; on the example site it ends
\* with the two pages visited and the one record (b.com, seed).
C4_VisitedIsReachable ==
    /\ []((run = "Completed" /\ AllFetchesOk) =>
            /\ visited_urls = Reachable({start_url})
            /\ visited_urls = DOMAIN served
            /\ ExampleSite => visited_urls = {SeedUrl, PageP2})
    /\ [][(run = "Running" /\ run' = "Completed" /\ ExampleSite') =>
            external_links' = <<<<ExternalB, SeedUrl>>>>]_vars

\* A completed crawl of three pages, none of which failed.
C4_Witness ==
    /\ run = "Completed" /\ AllFetchesOk
    /\ Cardinality(visited_urls) = 3
    /\ \E u \in DOMAIN served : Cardinality(InternalTargets(u)) = 2

\* The crawl of the example site has completed.
C4_WitnessExample == run = "Completed" /\ ExampleSite /\ external_links # << >>

\* Every URL string the crawl of the model can meet.
SiteUrls == {SeedUrl, PageP2, PageP3}

\* C5: every crawl terminates: a running crawl reaches an empty frontier and
\* the state Completed, whatever the pop order and whichever fetches fail.
C5_CrawlCompletes ==
    (run = "Running") ~> (run = "Completed" /\ urls_to_visit = {})

\* The crawl loop itself always ends: with an empty frontier and Completed,
\* or Aborted by the ValueError urljoin raises on an href it cannot parse.
CrawlLoopEnds ==
    (run = "Running") ~>
        ((run = "Completed" /\ urls_to_visit = {}) \/ run = "Aborted")

\* A run is aborted only on a page that carries such an href.
AbortOnlyOnBadHref ==
    run = "Aborted" =>
        /\ current_url \in DOMAIN served
        /\ served[current_url].status = "ok"
        /\ \E i \in 1..Len(served[current_url].anchors) :
              RaisesValueError(served[current_url].anchors[i])

\* C6: a failed fetch does not end the crawl, and every URL placed in the
\* frontier is eventually visited unless the run is aborted.
C6_FrontierEventuallyVisited ==
    /\ [](urls_to_visit \subseteq SiteUrls)
    /\ [][(pc = "fetch" /\ served'[current_url].status = "error") =>
            (run' = "Running" /\ pc' = "loop")]_vars
    /\ \A u \in SiteUrls :
          (u \in urls_to_visit) ~> (u \in visited_urls \/ run = "Aborted")

\* A fetch failed while another URL waited in the frontier, and that URL
\* has since been popped and marked visited.
C6_Witness ==
    /\ run = "Running" /\ pc = "fetch"
    /\ Cardinality(visited_urls) = 3
    /\ Cardinality(DOMAIN served) = 2
    /\ \E u \in DOMAIN served : served[u].status = "error"


\* The seeds the handler must reject: empty, or without the http:// or
\* https:// prefix.
InvalidSeed(r) ==
    \/ r = EmptyStr
    \/ ~(StartsWith(r, <<"http", "://">>) \/ StartsWith(r, <<"https", "://">>))

\* C7: a loop iteration whose fetch fails or whose response is not HTML
\* leaves the URL in visited_urls and contributes nothing: the frontier and
\* external_links are as they were after the pop, and the crawl goes on.
C7_FailedFetchAddsNothing ==
    [][(pc = "fetch" /\ served'[current_url].status \in {"error", "nonhtml"}) =>
         /\ urls_to_visit' = urls_to_visit
         /\ external_links' = external_links
         /\ total_urls_discovered' = total_urls_discovered
         /\ current_url \in visited_urls' /\ current_url \notin urls_to_visit'
         /\ run' = "Running"]_vars

\* The iteration of a non-HTML response has ended; another URL waits in the
\* frontier.
C7_Witness ==
    /\ run = "Running" /\ pc = "loop"
    /\ current_url \in DOMAIN served
    /\ served[current_url].status = "nonhtml"
    /\ urls_to_visit # {}

\* C8: a Start Crawling request with an empty seed or a seed without the
\* http:// or https:// prefix is rejected with an error: the run state does
\* not become Running, no fetch is issued, and visited_urls, external_links
\* and the frontier keep their contents.
C8_InvalidSeedRejected ==
    [][\A r \in RootUrls : (InvalidSeed(r) /\ StartCrawling(r)) =>
         /\ run' = run /\ run' # "Running" /\ pc' = pc
         /\ st_error' # ""
         /\ fetches' = fetches
         /\ visited_urls' = visited_urls
         /\ external_links' = external_links
         /\ urls_to_visit' = urls_to_visit]_vars

\* An invalid seed was rejected after a crawl, whose results are still there.
C8_Witness ==
    /\ st_error = "The root URL must start with 'http://' or 'https://'."
    /\ run = "Completed"
    /\ visited_urls # {} /\ external_links # << >>

\* s is a prefix of t.
IsPrefix(s, t) == Len(s) <= Len(t) /\ SubSeq(t, 1, Len(s)) = s

\* C9: when an exception other than a per-URL fetch error leaves the crawl
\* loop, the run becomes Aborted, external_links keeps every record appended
\* before the error, and the export section offers all of them.
C9_AbortKeepsResults ==
    [][(run = "Running" /\ run' = "Aborted") =>
         /\ IsPrefix(external_links, external_links')
         /\ external_links' # << >> =>
               /\ Len(csv_data') = Len(external_links') + 1
               /\ \A i \in 1..Len(external_links') :
                     csv_data'[i + 1] = external_links'[i]]_vars

\* An aborted run whose sink holds a record of an earlier page and a record
\* of the page on which the exception was raised.
C9_Witness ==
    /\ run = "Aborted"
    /\ Len(external_links) >= 2
    /\ external_links[Len(external_links)][2] = current_url
    /\ external_links[1][2] # current_url
    /\ Len(csv_data) = Len(external_links) + 1

\* C10: Clear Results leaves external_links empty, and every crawl starts
\* with visited_urls empty, external_links empty and the frontier holding
\* only its seed, whatever an earlier run left behind.
C10_FreshStart ==
    [][/\ clear_results => (external_links' = << >> /\ csv_data' = << >>)
       /\ (run # "Running" /\ run' = "Running") =>
              /\ visited_urls' = {}
              /\ external_links' = << >>
              /\ urls_to_visit' = {start_url'}
              /\ fetches' = NoWeb]_vars

\* Clear Results has emptied the sink of a completed crawl that had found
\* external links; visited_urls still holds that crawl's pages.
C10_Witness ==
    /\ run = "Completed"
    /\ external_links = << >>
    /\ visited_urls # {}
    /\ \E u \in DOMAIN served :
          get_links(u, start_url, served[u]).appended # << >>

\* C11 as stated: the only step after which external_links holds fewer
\* records than before is Clear Results.
C11_OnlyResetShrinks ==
    [][Len(external_links') < Len(external_links) => clear_results]_vars

\* C11: external_links loses records only in Clear Results and in a Start
\* Crawling request with a valid seed (external_links.clear() at line 140);
\* every other step keeps the records it held, in order.
C11_ResetOrStartShrinks ==
    [][\/ IsPrefix(external_links, external_links')
       \/ clear_results
       \/ \E r \in RootUrls : ~InvalidSeed(r) /\ StartCrawling(r)]_vars

\* Clear Results has emptied the sink an aborted crawl had left.
C11_Witness ==
    /\ run = "Aborted"
    /\ external_links = << >>
    /\ get_links(current_url, start_url, served[current_url]).appended # << >>

\* The reference classification of a resolved URL against a base host.
classify(url, baseHost) ==
    IF should_skip_url(url) \/ ~is_valid_landing_page(url) THEN "Rejected"
    ELSE IF urlparse(url).netloc = baseHost THEN "Internal"
    ELSE IF Len(url) >= 1 /\ url[1] \in {"http", "https"} THEN "External"
    ELSE "Rejected"

\* C12: for every resolved link URL and base host the extractor does what
\* classify says: a Rejected URL leaves no trace, an Internal one joins the
\* page's candidates (and so the frontier, unless already visited), an
\* External one is appended to external_links paired with the page URL.
C12_ExtractorMatchesClassify ==
    (pc = "loop" /\ current_url \in DOMAIN served
        /\ served[current_url].status = "ok"
        /\ Len(served[current_url].anchors) = 1) =>
    LET full_url == urljoin(current_url, served[current_url].anchors[1])
        class == classify(full_url, urlparse(start_url).netloc)
    IN  /\ class = "Rejected" =>
              urls_to_visit = {} /\ external_links = << >>
        /\ class = "Internal" =>
              /\ urls_to_visit = {full_url} \ visited_urls
              /\ external_links = << >>
        /\ class = "External" =>
              /\ urls_to_visit = {}
              /\ external_links = <<<<full_url, current_url>>>>

\* The extractor has met a URL of the seed's host written in another case:
\* it is External.
C12_Witness ==
    /\ pc = "loop" /\ current_url \in DOMAIN served
    /\ start_url = <<"https", "://", "a.com">>
    /\ external_links = <<<<<<"https", "://", "A.com", "/p2">>, current_url>>>>

\* The crawl loop has just found the frontier empty.
LoopExit == run = "Running" /\ pc = "loop" /\ urls_to_visit = {}

\* The records a page owes the sink: one per anchor that classify calls
\* External, in document order.
RECURSIVE ExternalRecords(_, _, _)
ExternalRecords(page, anchors, baseHost) ==
    IF anchors = << >> THEN << >>
    ELSE LET full_url == urljoin(page, Head(anchors))
             rest == ExternalRecords(page, Tail(anchors), baseHost)
         IN  IF classify(full_url, baseHost) = "External"
             THEN <<<<full_url, page>>>> \o rest
             ELSE rest

\* The records of the sink whose source is the given page, in sink order.
RECURSIVE RecordsFrom(_, _)
RecordsFrom(links, page) ==
    IF links = << >> THEN << >>
    ELSE IF Head(links)[2] = page
    THEN <<Head(links)>> \o RecordsFrom(Tail(links), page)
    ELSE RecordsFrom(Tail(links), page)

\* C13: when the crawl loop ends, external_links holds for each page fetched
\* as HTML exactly one record per External anchor of that page, repeated
\* anchors included, and no other record.
C13_OneRecordPerAnchor ==
    LoopExit =>
        /\ \A i \in 1..Len(external_links) :
              external_links[i][2] \in DOMAIN served
        /\ \A u \in DOMAIN served :
              RecordsFrom(external_links, u) =
                  IF served[u].status = "ok"
                  THEN ExternalRecords(u, served[u].anchors,
                                       urlparse(start_url).netloc)
                  ELSE << >>

\* b.com is referenced once on one page and twice on another: three records.
C13_Witness ==
    /\ LoopExit
    /\ Len(external_links) = 3
    /\ external_links[2] = external_links[3]
    /\ external_links[1][1] = external_links[2][1]
    /\ external_links[1][2] # external_links[2][2]

\* The number of progress reports made for the URL u.
ReportsOf(u) ==
    Cardinality({i \in 1..Len(progress_reports) : progress_reports[i].url = u})

\* C14: every URL of visited_urls has exactly one progress report and no
\* other URL has one; between the marking and the fetch of a URL the last
\* report is the one for that URL, not yet fetched, and carries
\* |visited_urls| over |visited_urls \cup urls_to_visit|;
\* total_urls_discovered equals |visited_urls \cup urls_to_visit|; no
\* reported ratio exceeds 1.
C14_ProgressReports ==
    /\ total_urls_discovered = Cardinality(visited_urls \cup urls_to_visit)
    /\ \A u \in visited_urls : ReportsOf(u) = 1
    /\ \A i \in 1..Len(progress_reports) :
          /\ progress_reports[i].url \in visited_urls
          /\ progress_reports[i].value[2] >= 1
          /\ progress_reports[i].value[1] <= progress_reports[i].value[2]
    /\ pc = "fetch" =>
          /\ progress_reports # << >>
          /\ progress_reports[Len(progress_reports)] =
                [value |-> <<Cardinality(visited_urls),
                             Cardinality(visited_urls \cup urls_to_visit)>>,
                 url |-> current_url]
          /\ current_url \notin DOMAIN fetches

\* The second URL of three known ones has just been reported: 2/3.
C14_Witness ==
    /\ pc = "fetch"
    /\ Len(progress_reports) = 2
    /\ progress_reports[2].value = <<2, 3>>
    /\ urls_to_visit # {}

\* The records of links whose first field contains the keyword, in order.
RECURSIVE Matching(_, _)
Matching(links, keyword) ==
    IF links = << >> THEN << >>
    ELSE IF keyword = "" \/ \E i \in 1..Len(Head(links)[1]) :
                               TokenContains(Head(links)[1][i], keyword)
    THEN <<Head(links)>> \o Matching(Tail(links), keyword)
    ELSE Matching(Tail(links), keyword)

\* C15: when a crawl completes, the table
\* shown holds, in the order of external_links, exactly the records whose link
\* contains the keyword with the case as typed (all of them for the empty
\* keyword); external_links is left as it was, and the export made in the same
\* script run and in every later one holds every record.
C15_FilterReadOnly ==
    /\ [][(run = "Running" /\ run' = "Completed") =>
            /\ filtered_links' = Matching(external_links, keyword_filter')
            /\ external_links' = external_links
            /\ csv_data' = export_section(external_links)]_vars
    /\ [][(run = "Completed" /\ ExportToCsv) =>
            /\ external_links' = external_links
            /\ csv_data' = export_section(external_links)]_vars

\* The keyword matched one of two records: the table is shorter than the
\* export.
C15_Witness ==
    /\ run = "Completed"
    /\ keyword_filter = "/p2"
    /\ Len(filtered_links) = 1
    /\ Len(external_links) = 2
    /\ filtered_links[1] = external_links[2]
    /\ csv_data = save_to_csv(external_links)

\* C16: in a run started by the handler, which empties visited_urls, the URL
\* popped is never in visited_urls, so the test of line 73 always succeeds:
\* each pop is followed by the fetch of the popped URL, its only one.
C16_SkipIsDead ==
    /\ [][(run = "Running" /\ pc = "loop" /\ urls_to_visit # {}) =>
            /\ pc' = "fetch"
            /\ current_url' \in urls_to_visit
            /\ current_url' \notin visited_urls
            /\ current_url' \notin DOMAIN fetches]_vars
    /\ [][pc = "fetch" =>
            /\ pc' # "fetch"
            /\ DOMAIN fetches' = DOMAIN fetches \cup {current_url}
            /\ fetches'[current_url] = 1]_vars

\* A URL two fetched pages link to has been popped.
C16_Witness ==
    /\ pc = "fetch"
    /\ \E u, v \in DOMAIN served :
          /\ u # v
          /\ current_url \in InternalTargets(u) \cap InternalTargets(v)

\* The number of times the record r occurs in the list.
CountIn(links, r) == Cardinality({i \in 1..Len(links) : links[i] = r})

\* What the web of this run owes the sink for the page u.
RecordsOwed(u) ==
    IF served[u].status = "ok"
    THEN ExternalRecords(u, served[u].anchors, urlparse(start_url).netloc)
    ELSE << >>

\* C17: when the crawl loop ends, visited_urls and the multiset of records in
\* external_links are functions of the seed and of the web alone: visited_urls
\* is the set of URLs reachable from the seed through internal links, every
\* one of them was fetched, and each record occurs in external_links as many
\* times as on its source page.  The order of the pops, which the state does
\* not determine, has no part in either.
C17_PopOrderIrrelevant ==
    LoopExit =>
        /\ visited_urls = Reachable({start_url})
        /\ DOMAIN served = visited_urls
        /\ \A i \in 1..Len(external_links) :
              /\ external_links[i][2] \in visited_urls
              /\ CountIn(external_links, external_links[i]) =
                     CountIn(RecordsOwed(external_links[i][2]), external_links[i])
        /\ \A u \in visited_urls :
              \A j \in 1..Len(RecordsOwed(u)) :
                  CountIn(external_links, RecordsOwed(u)[j]) =
                      CountIn(RecordsOwed(u), RecordsOwed(u)[j])

\* The seed lists /p2 before /p3, but /p3 was popped and fetched first.
C17_Witness ==
    /\ LoopExit
    /\ served[SeedUrl].anchors = <<<<"/p2">>, <<"/p3">>>>
    /\ external_links = <<<<ExternalB, PageP3>>, <<ExternalB, PageP2>>>>

\* C18: in every state the source page of every record of external_links is
\* in visited_urls, and its netloc is the netloc of the seed or it is the
\* seed itself.
C18_SourceVisited ==
    \A i \in 1..Len(external_links) :
        /\ external_links[i][2] \in visited_urls
        /\ \/ urlparse(external_links[i][2]).netloc = urlparse(start_url).netloc
           \/ external_links[i][2] = start_url

\* A record found on a page other than the seed, while the crawl goes on.
C18_Witness ==
    /\ run = "Running"
    /\ \E i \in 1..Len(external_links) : external_links[i][2] # start_url

\* The URL text shows none of the marks the classifier rejects.
LooksInternal(u) ==
    /\ Len(u) >= 3
    /\ u[2] = "://"
    /\ u[3] = start_url[3]
    /\ u[Len(u)] \notin {".PDF", ".pdf", ".jpg"}
    /\ \A i \in 1..Len(u) : u[i] # "#" /\ u[i] # "/et_blog"

\* C19: every URL of visited_urls and urls_to_visit other than the seed has
\* the netloc of the seed, no skipped extension, no '#' and no 'et_blog'; the
\* seed is enqueued whatever it looks like, and once it has left the frontier
\* it is the URL being fetched or it has been fetched.
C19_OnlySeedUnclassified ==
    /\ \A u \in (visited_urls \cup urls_to_visit) \ {start_url} : LooksInternal(u)
    /\ run # "Idle" =>
          /\ start_url \in visited_urls \cup urls_to_visit
          /\ \/ start_url \in urls_to_visit
             \/ pc = "fetch" /\ current_url = start_url
             \/ start_url \in DOMAIN fetches

\* A seed the classifier rejects was fetched, and the crawl went on from it
\* to a page that links back to it.
C19_Witness ==
    /\ ~LooksInternal(start_url)
    /\ start_url \in DOMAIN fetches
    /\ Cardinality(visited_urls) = 2
    /\ \E u \in DOMAIN served :
          /\ u # start_url
          /\ served[u].status = "ok"
          /\ \E i \in 1..Len(served[u].anchors) :
                urljoin(u, served[u].anchors[i]) = start_url

\* C20: once a run is Completed, the last progress report it made has the
\* value 1: its numerator is |visited_urls|, its denominator is
\* total_urls_discovered, and the two are equal.
C20_LastReportIsOne ==
    run = "Completed" =>
        /\ progress_reports # << >>
        /\ LET last == progress_reports[Len(progress_reports)].value
           IN  /\ last[1] = Cardinality(visited_urls)
               /\ last[2] = total_urls_discovered
               /\ last[1] = last[2]

\* A completed run whose reports went 1/1, 2/3, 3/3: the second is lower
\* than the first.
C20_Witness ==
    /\ run = "Completed"
    /\ Len(progress_reports) = 3
    /\ progress_reports[1].value = <<1, 1>>
    /\ progress_reports[2].value = <<2, 3>>
    /\ progress_reports[3].value = <<3, 3>>

====
